---- MODULE Spec2Model ----
(***************************************************************************)
(* Model of src/conf2vmrule.py: the label-matcher cleaning of a query      *)
(* expression (clean_query and its helpers).                               *)
(*                                                                         *)
(* A Python str is modelled as a sequence of one-character strings.        *)
(* Python indexes from 0, TLA+ sequences from 1: a position i of the       *)
(* source is the position i + 1 here.                                      *)
(***************************************************************************)
EXTENDS Integers, Sequences, FiniteSets, TLC

\* ------------------------------------------------------------ characters

SQ == "'"
DQ == "\""
BS == "\\"
LB == "{"
RB == "}"
CM == ","
SP == " "
NL == "\n"

\* str.strip() and the regex class \s
Whitespace == {" ", "\t", "\n", "\r", "\f"}

Lower == {"a", "b", "c", "d", "e", "f", "g", "h", "i", "j", "k", "l", "m",
          "n", "o", "p", "q", "r", "s", "t", "u", "v", "w", "x", "y", "z"}
Upper == {"A", "B", "C", "D", "E", "F", "G", "H", "I", "J", "K", "L", "M",
          "N", "O", "P", "Q", "R", "S", "T", "U", "V", "W", "X", "Y", "Z"}
Digit == {"0", "1", "2", "3", "4", "5", "6", "7", "8", "9"}

\* the regex classes [A-Za-z_] and [A-Za-z0-9_]
NameStart == Lower \cup Upper \cup {"_"}
NameChar == NameStart \cup Digit

\* ------------------------------------------------------- str operations

\* s[from:] of Python, from being a 1-based position here
Tail_from(s, from) == SubSeq(s, from, Len(s))

\* str.lstrip()
RECURSIVE lstrip(_)
lstrip(s) ==
  IF s # <<>> /\ Head(s) \in Whitespace THEN lstrip(Tail(s)) ELSE s

\* str.rstrip()
RECURSIVE rstrip(_)
rstrip(s) ==
  IF s # <<>> /\ s[Len(s)] \in Whitespace
  THEN rstrip(SubSeq(s, 1, Len(s) - 1))
  ELSE s

\* str.strip()
strip(s) == rstrip(lstrip(s))

\* whether pat occurs in s at position k
MatchesAt(s, pat, k) ==
  /\ k + Len(pat) - 1 <= Len(s)
  /\ \A d \in 1..Len(pat) : s[k + d - 1] = pat[d]

\* str.replace(pat, rep): the non-overlapping occurrences of pat, left to
\* right, each replaced by rep (a single pass: the result is not rescanned)
RECURSIVE replace_from(_, _, _, _)
replace_from(s, pat, rep, k) ==
  IF k > Len(s) THEN <<>>
  ELSE IF MatchesAt(s, pat, k)
       THEN rep \o replace_from(s, pat, rep, k + Len(pat))
       ELSE <<s[k]>> \o replace_from(s, pat, rep, k + 1)

replace(s, pat, rep) == replace_from(s, pat, rep, 1)

\* sep.join(parts)
RECURSIVE join(_, _)
join(sep, parts) ==
  IF parts = <<>> THEN <<>>
  ELSE IF Len(parts) = 1 THEN parts[1]
  ELSE parts[1] \o sep \o join(sep, Tail(parts))

\* [p for p in parts if p]
RECURSIVE non_empty(_)
non_empty(parts) ==
  IF parts = <<>> THEN <<>>
  ELSE IF Head(parts) = <<>> THEN non_empty(Tail(parts))
  ELSE <<Head(parts)>> \o non_empty(Tail(parts))

\* ---------------------------------------------- _split_label_matchers

\* the splitter's locals before its loop (lines 66-70)
SplitInit ==
  [parts |-> <<>>, buf |-> <<>>,
   in_single |-> FALSE, in_double |-> FALSE, esc |-> FALSE]

\* SplitStep with the comma test of line 88 without its quote conditions
SplitStep_comma_always(sp, ch) ==
  IF sp.esc
  THEN [sp EXCEPT !.buf = Append(@, ch), !.esc = FALSE]
  ELSE IF ch = BS
  THEN [sp EXCEPT !.buf = Append(@, ch), !.esc = TRUE]
  ELSE IF ch = SQ /\ ~sp.in_double
  THEN [sp EXCEPT !.in_single = ~@, !.buf = Append(@, ch)]
  ELSE IF ch = DQ /\ ~sp.in_single
  THEN [sp EXCEPT !.in_double = ~@, !.buf = Append(@, ch)]
  ELSE IF ch = CM
  THEN [sp EXCEPT !.parts = Append(@, strip(sp.buf)), !.buf = <<>>]
  ELSE [sp EXCEPT !.buf = Append(@, ch)]

\* SplitStep without the escape handling of lines 72-79
SplitStep_no_escape(sp, ch) ==
  IF ch = SQ /\ ~sp.in_double
  THEN [sp EXCEPT !.in_single = ~@, !.buf = Append(@, ch)]
  ELSE IF ch = DQ /\ ~sp.in_single
  THEN [sp EXCEPT !.in_double = ~@, !.buf = Append(@, ch)]
  ELSE IF ch = CM /\ ~sp.in_single /\ ~sp.in_double
  THEN [sp EXCEPT !.parts = Append(@, strip(sp.buf)), !.buf = <<>>]
  ELSE [sp EXCEPT !.buf = Append(@, ch)]

\* one iteration of the splitter's loop on character ch (lines 71-92)
SplitStep(sp, ch) ==
  IF sp.esc
  THEN [sp EXCEPT !.buf = Append(@, ch), !.esc = FALSE]
  ELSE IF ch = BS
  THEN [sp EXCEPT !.buf = Append(@, ch), !.esc = TRUE]
  ELSE IF ch = SQ /\ ~sp.in_double
  THEN [sp EXCEPT !.in_single = ~@, !.buf = Append(@, ch)]
  ELSE IF ch = DQ /\ ~sp.in_single
  THEN [sp EXCEPT !.in_double = ~@, !.buf = Append(@, ch)]
  ELSE IF ch = CM /\ ~sp.in_single /\ ~sp.in_double
  THEN [sp EXCEPT !.parts = Append(@, strip(sp.buf)), !.buf = <<>>]
  ELSE [sp EXCEPT !.buf = Append(@, ch)]

\* the splitter's state after the first k characters of s
RECURSIVE SplitAfter(_, _)
SplitAfter(s, k) ==
  IF k = 0 THEN SplitInit ELSE SplitStep(SplitAfter(s, k - 1), s[k])

\* split_label_matchers without the filter of line 95: the empty parts stay
split_label_matchers_keeps_empty(s) ==
  LET sp == SplitAfter(s, Len(s))
  IN IF sp.buf # <<>> THEN Append(sp.parts, strip(sp.buf)) ELSE sp.parts

\* _split_label_matchers(s): the loop, the trailing buffer (lines 93-94)
\* and the filter of the empty parts (line 95)
split_label_matchers(s) ==
  LET sp == SplitAfter(s, Len(s))
      parts == IF sp.buf # <<>> THEN Append(sp.parts, strip(sp.buf))
               ELSE sp.parts
  IN non_empty(parts)

\* ------------------------------------------------------ _PLACEHOLDER_RE

\* %[^%]+% matches somewhere in s
percent_form(s) ==
  \E a \in 1..Len(s) : \E b \in (a + 2)..Len(s) :
    /\ s[a] = "%"
    /\ s[b] = "%"
    /\ \A k \in (a + 1)..(b - 1) : s[k] # "%"

\* \{\{[^}]+\}\} matches somewhere in s
double_brace_form(s) ==
  \E a \in 1..Len(s) : \E b \in (a + 3)..(Len(s) - 1) :
    /\ s[a] = LB /\ s[a + 1] = LB
    /\ s[b] = RB /\ s[b + 1] = RB
    /\ \A k \in (a + 2)..(b - 1) : s[k] # RB

\* \$\{[^}]+\} matches somewhere in s
dollar_brace_form(s) ==
  \E a \in 1..Len(s) : \E b \in (a + 3)..Len(s) :
    /\ s[a] = "$" /\ s[a + 1] = LB
    /\ s[b] = RB
    /\ \A k \in (a + 2)..(b - 1) : s[k] # RB

\* \$[A-Za-z_][A-Za-z0-9_]* matches somewhere in s
dollar_name_form(s) ==
  \E a \in 1..(Len(s) - 1) : s[a] = "$" /\ s[a + 1] \in NameStart

\* has_placeholder(s): bool(_PLACEHOLDER_RE.search(s))
has_placeholder(s) ==
  \/ percent_form(s)
  \/ double_brace_form(s)
  \/ dollar_brace_form(s)
  \/ dollar_name_form(s)

\* ---------------------------------------------------- _LABEL_MATCHER_RE

\* the end of the longest run of characters of class cls that starts at
\* position k of t (k itself when t[k] is not of the class)
RECURSIVE SkipWhile(_, _, _)
SkipWhile(t, k, cls) ==
  IF k <= Len(t) /\ t[k] \in cls THEN SkipWhile(t, k + 1, cls) ELSE k

\* the operators in the order of the alternation (=~|!~|=|!=)
Operators == << <<"=", "~">>, <<"!", "~">>, <<"=">>, <<"!", "=">> >>

\* \s*(.+?)\s*$ on the rest r of a stripped fragment: the value is r without
\* its leading whitespace; "." matches no newline
value_matches(r) == r # <<>> /\ \A k \in 1..Len(lstrip(r)) : lstrip(r)[k] # NL

\* _LABEL_MATCHER_RE.match(t), t a stripped fragment: the groups (key, op,
\* val) of the first alternative of the operator that lets the rest match
label_matcher(t) ==
  LET k0 == SkipWhile(t, 1, Whitespace)
      k1 == SkipWhile(t, k0, NameChar)
      k2 == SkipWhile(t, k1, Whitespace)
      fits(n) == /\ MatchesAt(t, Operators[n], k2)
                 /\ value_matches(Tail_from(t, k2 + Len(Operators[n])))
      found == {n \in 1..Len(Operators) : fits(n)}
      first == CHOOSE n \in found : \A o \in found : n <= o
  IN IF k0 <= Len(t) /\ t[k0] \in NameStart /\ found # {}
     THEN [ok |-> TRUE,
           key |-> SubSeq(t, k0, k1 - 1),
           op |-> Operators[first],
           val |-> lstrip(Tail_from(t, k2 + Len(Operators[first])))]
     ELSE [ok |-> FALSE, key |-> <<>>, op |-> <<>>, val |-> <<>>]

\* ------------------------------------------------- reconstruct_labelset

\* line 120: v without one layer of matching quotes
unquoted(v) ==
  IF /\ Len(v) >= 2
     /\ \/ (v[1] = DQ /\ v[Len(v)] = DQ)
        \/ (v[1] = SQ /\ v[Len(v)] = SQ)
  THEN SubSeq(v, 2, Len(v) - 1)
  ELSE v

\* keep_matcher with "continue" in place of lines 116-117: a fragment that
\* does not parse is dropped
keep_matcher_drop_unparsed(m) ==
  LET mobj == label_matcher(strip(m))
      v == strip(mobj.val)
  IN IF ~mobj.ok THEN <<>>
     ELSE IF has_placeholder(unquoted(v)) THEN <<>>
     ELSE <<mobj.key \o mobj.op \o v>>

\* keep_matcher with the placeholder test of line 121 made on the whole
\* fragment before the fragment is parsed
keep_matcher_placeholder_first(m) ==
  LET mobj == label_matcher(strip(m))
      v == strip(mobj.val)
  IN IF has_placeholder(strip(m)) THEN <<>>
     ELSE IF ~mobj.ok THEN <<strip(m)>>
     ELSE <<mobj.key \o mobj.op \o v>>

\* lines 113-123 for one fragment m: the list of what is appended to kept
\* (one text, or nothing when the matcher is dropped)
keep_matcher(m) ==
  LET mobj == label_matcher(strip(m))
      v == strip(mobj.val)
  IN IF ~mobj.ok THEN <<strip(m)>>
     ELSE IF has_placeholder(unquoted(v)) THEN <<>>
     ELSE IF v = strip(mobj.val) THEN <<mobj.key \o mobj.op \o v>>
     ELSE <<strip(m)>>

\* the loop of lines 111-123 over the fragments
RECURSIVE kept_matchers(_)
kept_matchers(matchers) ==
  IF matchers = <<>> THEN <<>>
  ELSE keep_matcher(Head(matchers)) \o kept_matchers(Tail(matchers))

\* reconstruct_labelset(content) (lines 109-126)
reconstruct_labelset(content) ==
  LET kept == kept_matchers(split_label_matchers(content))
  IN IF kept = <<>> THEN <<>>
     ELSE <<LB>> \o join(<<CM, SP>>, kept) \o <<RB>>

\* ---------------------------------------------------------- clean_query

\* the locals of clean_query before its loop (lines 128-131); the locals of
\* the block capture get their values when a capture begins
ScanInit ==
  [pc |-> "top", i |-> 1, out |-> <<>>,
   in_single |-> FALSE, in_double |-> FALSE,
   j |-> 1, depth |-> 0,
   sub_in_single |-> FALSE, sub_in_double |-> FALSE,
   content |-> <<>>, result |-> <<>>]

\* TopStep with "and not in_double" (line 134) and "and not in_single"
\* (line 139) left out: a quote character flips its flag in every state
TopStep_quotes_unguarded(expr, st) ==
  LET ch == expr[st.i]
  IN IF ch = SQ
     THEN [st EXCEPT !.in_single = ~@, !.out = Append(@, ch), !.i = @ + 1]
     ELSE IF ch = DQ
     THEN [st EXCEPT !.in_double = ~@, !.out = Append(@, ch), !.i = @ + 1]
     ELSE IF ch = LB /\ ~st.in_single /\ ~st.in_double
     THEN [st EXCEPT !.pc = "capture", !.depth = 1, !.j = st.i + 1,
                     !.sub_in_single = FALSE, !.sub_in_double = FALSE,
                     !.content = <<>>]
     ELSE [st EXCEPT !.out = Append(@, ch), !.i = @ + 1]

\* TopStep with lines 136-137 and 141-142 left out: a quote character flips
\* its flag and is read again
TopStep_quote_stalls(expr, st) ==
  LET ch == expr[st.i]
  IN IF ch = SQ /\ ~st.in_double
     THEN [st EXCEPT !.in_single = ~@]
     ELSE IF ch = DQ /\ ~st.in_single
     THEN [st EXCEPT !.in_double = ~@]
     ELSE IF ch = LB /\ ~st.in_single /\ ~st.in_double
     THEN [st EXCEPT !.pc = "capture", !.depth = 1, !.j = st.i + 1,
                     !.sub_in_single = FALSE, !.sub_in_double = FALSE,
                     !.content = <<>>]
     ELSE [st EXCEPT !.out = Append(@, ch), !.i = @ + 1]

\* one iteration of the outer loop (lines 133-187) up to the start of a
\* block capture (lines 146-149); out is kept joined
TopStep(expr, st) ==
  LET ch == expr[st.i]
  IN IF ch = SQ /\ ~st.in_double
     THEN [st EXCEPT !.in_single = ~@, !.out = Append(@, ch), !.i = @ + 1]
     ELSE IF ch = DQ /\ ~st.in_single
     THEN [st EXCEPT !.in_double = ~@, !.out = Append(@, ch), !.i = @ + 1]
     ELSE IF ch = LB /\ ~st.in_single /\ ~st.in_double
     THEN [st EXCEPT !.pc = "capture", !.depth = 1, !.j = st.i + 1,
                     !.sub_in_single = FALSE, !.sub_in_double = FALSE,
                     !.content = <<>>]
     ELSE [st EXCEPT !.out = Append(@, ch), !.i = @ + 1]

\* one iteration of the capture loop (lines 151-176)
CaptureStep(expr, st) ==
  LET cj == expr[st.j]
  IN IF cj = SQ /\ ~st.sub_in_double
     THEN [st EXCEPT !.sub_in_single = ~@, !.content = Append(@, cj),
                     !.j = @ + 1]
     ELSE IF cj = DQ /\ ~st.sub_in_single
     THEN [st EXCEPT !.sub_in_double = ~@, !.content = Append(@, cj),
                     !.j = @ + 1]
     ELSE IF cj = LB /\ ~st.sub_in_single /\ ~st.sub_in_double
     THEN [st EXCEPT !.depth = @ + 1, !.content = Append(@, cj), !.j = @ + 1]
     ELSE IF cj = RB /\ ~st.sub_in_single /\ ~st.sub_in_double
     THEN IF st.depth - 1 = 0
          THEN [st EXCEPT !.depth = 0, !.j = @ + 1]
          ELSE [st EXCEPT !.depth = @ - 1, !.content = Append(@, cj),
                          !.j = @ + 1]
     ELSE [st EXCEPT !.content = Append(@, cj), !.j = @ + 1]

\* line 178: the block is rebuilt only when its interior holds no brace
\* character at all; otherwise it is put back as it was read
rebuild_block(inner) ==
  IF (\A k \in 1..Len(inner) : inner[k] # LB /\ inner[k] # RB)
  THEN reconstruct_labelset(inner)
  ELSE <<LB>> \o inner \o <<RB>>

\* after the capture loop (lines 177-185)
CaptureEnd(st) ==
  [st EXCEPT !.out = @ \o rebuild_block(st.content), !.i = st.j, !.pc = "top"]

\* lines 188-190
normalize_braces(text) == replace(replace(text, <<LB, SP>>, <<LB>>), <<SP, RB>>, <<RB>>)

\* after the outer loop (lines 188-190)
Finish(st) ==
  [st EXCEPT !.result = normalize_braces(st.out), !.pc = "done"]

\* the next step of clean_query(expr) in state st
ScanStep(expr, st) ==
  IF st.pc = "top"
  THEN IF st.i <= Len(expr) THEN TopStep(expr, st) ELSE Finish(st)
  ELSE IF st.j <= Len(expr) /\ st.depth > 0
       THEN CaptureStep(expr, st)
       ELSE CaptureEnd(st)

RECURSIVE ScanRun(_, _)
ScanRun(expr, st) ==
  IF st.pc = "done" THEN st ELSE ScanRun(expr, ScanStep(expr, st))

\* clean_query(expr) (lines 100-190)
clean_query(expr) == ScanRun(expr, ScanInit).result

\* ------------------------------------------------------ parse_threshold

\* the value None of an Optional[str]: a value that is no text
None == <<"None">>

\* the position of the first ":" of s
first_colon(s) ==
  CHOOSE c \in 1..Len(s) : s[c] = ":" /\ \A d \in 1..(c - 1) : s[d] # ":"

\* parse_threshold with the sides of line 53 exchanged: the left side is
\* returned and the right side is the fallback
parse_threshold_left_side(raw) ==
  IF raw = None \/ raw = <<>> THEN None
  ELSE LET s == strip(raw)
       IN IF \E c \in 1..Len(s) : s[c] = ":"
          THEN LET left == strip(SubSeq(s, 1, first_colon(s) - 1))
                   right == Tail_from(s, first_colon(s) + 1)
               IN IF left \notin {<<>>, <<"~">>} THEN left ELSE strip(right)
          ELSE s

\* parse_threshold(raw) (lines 46-54)
parse_threshold(raw) ==
  IF raw = None \/ raw = <<>> THEN None
  ELSE LET s == strip(raw)
       IN IF \E c \in 1..Len(s) : s[c] = ":"
          THEN LET left == SubSeq(s, 1, first_colon(s) - 1)
                   right == strip(Tail_from(s, first_colon(s) + 1))
               IN IF right \notin {<<>>, <<"~">>} THEN right ELSE strip(left)
          ELSE s

\* -------------------------------------------------- convert_conf_to_yaml

\* the letters in the order of the alphabet
UpperLetters == <<"A", "B", "C", "D", "E", "F", "G", "H", "I", "J", "K", "L",
                  "M", "N", "O", "P", "Q", "R", "S", "T", "U", "V", "W", "X",
                  "Y", "Z">>
LowerLetters == <<"a", "b", "c", "d", "e", "f", "g", "h", "i", "j", "k", "l",
                  "m", "n", "o", "p", "q", "r", "s", "t", "u", "v", "w", "x",
                  "y", "z">>

\* str.lower()
lower(s) ==
  [k \in 1..Len(s) |->
     IF s[k] \in Upper
     THEN LowerLetters[CHOOSE n \in 1..Len(UpperLetters) : UpperLetters[n] = s[k]]
     ELSE s[k]]

\* metric_to_slug(name) (lines 56-57)
metric_to_slug(name) == replace(lower(strip(name)), <<"_">>, <<"-">>)

\* metric_to_words(name) (lines 59-60)
metric_to_words(name) == replace(lower(strip(name)), <<"_">>, <<SP>>)

\* "x or default" on an Optional[str]: None and the empty text are false
or_else(x, default) == IF x = None \/ x = <<>> THEN default ELSE x

\* the default of line 210
unnamed_service == <<"u", "n", "n", "a", "m", "e", "d", "_", "s", "e", "r", "v", "i", "c", "e">>

\* build_rule_block (lines 194-206): the rule as the values it writes into
\* the YAML text; expr is the text of the line under "expr: |"
build_rule_block(metric_for_text, expr_left, threshold, severity) ==
  [alert |-> metric_for_text,
   summary |-> metric_to_words(metric_for_text),
   expr |-> expr_left \o <<SP, ">", SP>> \o threshold,
   severity |-> severity]

\* the rule of lines 249-259, without comparator
info_rule(metric_name, expr_left) ==
  [alert |-> metric_name,
   summary |-> metric_to_words(metric_name),
   expr |-> expr_left,
   severity |-> "info"]

\* a call that has not ended yet
Unconverted ==
  [outcome |-> "pending", metric_name |-> None, meta |-> None, rules |-> <<>>]

\* what a call that raises ValueError (line 261) leaves: nothing is returned
Raised ==
  [outcome |-> "raised", metric_name |-> None, meta |-> None, rules |-> <<>>]

\* convert_conf_to_yaml with the test of line 248 left out: without
\* threshold the call raises, query or not
convert_conf_to_yaml_needs_threshold(f) ==
  LET service_name == or_else(f.service_name, unnamed_service)
      metric_name == or_else(f.metric_name, service_name)
      metric_query == f.metric_query
      warn == parse_threshold(f.warn_raw)
      crit == parse_threshold(f.crit_raw)
      expr_left == IF metric_query # None /\ metric_query # <<>>
                   THEN clean_query(metric_query)
                   ELSE metric_name
      with_warn == IF warn # None
                   THEN <<build_rule_block(metric_name, expr_left, warn, "warning")>>
                   ELSE <<>>
      with_crit == IF crit # None
                   THEN Append(with_warn,
                               build_rule_block(metric_name, expr_left, crit, "critical"))
                   ELSE with_warn
  IN IF with_crit # <<>>
     THEN [outcome |-> "returned", metric_name |-> metric_name,
           meta |-> metric_to_slug(metric_name), rules |-> with_crit]
     ELSE Raised

\* convert_conf_to_yaml (lines 208-263) from the five values extract gives
\* (lines 210-214): what is raised or returned. The document is the header
\* with meta in it and the rules one after the other; it is kept as meta and
\* the list of the rules.
convert_conf_to_yaml(f) ==
  LET service_name == or_else(f.service_name, unnamed_service)
      metric_name == or_else(f.metric_name, service_name)
      metric_query == f.metric_query
      warn == parse_threshold(f.warn_raw)
      crit == parse_threshold(f.crit_raw)
      expr_left == IF metric_query # None /\ metric_query # <<>>
                   THEN clean_query(metric_query)
                   ELSE metric_name
      with_warn == IF warn # None
                   THEN <<build_rule_block(metric_name, expr_left, warn, "warning")>>
                   ELSE <<>>
      with_crit == IF crit # None
                   THEN Append(with_warn,
                               build_rule_block(metric_name, expr_left, crit, "critical"))
                   ELSE with_warn
  IN IF with_crit # <<>>
     THEN [outcome |-> "returned", metric_name |-> metric_name,
           meta |-> metric_to_slug(metric_name), rules |-> with_crit]
     ELSE IF metric_query # None /\ metric_query # <<>>
     THEN [outcome |-> "returned", metric_name |-> metric_name,
           meta |-> metric_to_slug(metric_name),
           rules |-> <<info_rule(metric_name, expr_left)>>]
     ELSE Raised

\* ------------------------------------------------------------ the calls

\* The query handed to clean_query is put together from a text before the
\* label block, the matcher fragments of the block, the separator between
\* them and a text after the block. expr is the argument of clean_query; the
\* other variables are the locals of the call.
VARIABLES prefix, matchers, separator, shape, suffix,
          expr, pc, i, out, in_single, in_double,
          j, depth, sub_in_single, sub_in_double, content, result

\* raw is the argument of a call parse_threshold(raw) and threshold what the
\* call returns
VARIABLES raw, threshold

\* fields holds what extract gives for the five patterns of a check
\* definition (lines 210-214) and converted what convert_conf_to_yaml raises
\* or returns
VARIABLES fields, converted

vars == <<prefix, matchers, separator, shape, suffix,
          expr, pc, i, out, in_single, in_double,
          j, depth, sub_in_single, sub_in_double, content, result,
          raw, threshold, fields, converted>>

\* no check definition is being converted
NoFields ==
  [service_name |-> None, metric_name |-> None, metric_query |-> None,
   warn_raw |-> None, crit_raw |-> None]

\* threshold before parse_threshold has returned
Pending == <<"pending">>

\* the longest list of matcher fragments of a block
MaxMatchers == 2

\* the matcher fragments the queries are built from
Fragments ==
  { <<"a", "=", DQ, "1", DQ>>,                            \* a="1"
    <<"w", SP, "=", SP, DQ, "1", DQ>>,                    \* w = "1"
    <<"p", "=", "~", DQ, "5", "%", DQ>>,                  \* p=~"5%"
    <<"h", "=", DQ, "%", "H", "%", DQ>>,                  \* h="%H%"
    <<"t", "=", DQ, LB, LB, "T", RB, RB, DQ>>,            \* t="{{T}}"
    <<"v", "=", SQ, "$", "V", SQ>>,                       \* v='$V'
    <<"e", "=", DQ, "$", LB, "E", RB, DQ>>,               \* e="${E}"
    <<"l", "=", DQ, "a", CM, "b", DQ>>,                   \* l="a,b"
    <<"j", "=", SQ, "a", CM, "b", SQ>>,                   \* j='a,b'
    <<"q", "=", DQ, "a", BS, DQ, "b", DQ>>,               \* q="a\"b"
    <<"c", "=", DQ, BS, DQ, CM, "y", DQ>>,                \* c="\",y"
    <<"g", "=", DQ, "a", CM, SP, RB, DQ>>,                \* g="a, }"
    <<"n", "=", LB, "b", RB>>,                            \* n={b}
    <<"%", "U", "%">>,                                    \* %U%
    <<SP, "u", "p", SP>>,                                 \* up, in spaces
    <<>> }                                                \* (empty)

Separators == { <<CM>>, <<CM, SP>> }

Prefixes ==
  { <<"m">>,                                                       \* m
    <<"f", LB, "z", "=", DQ, "9", DQ, RB, SP, "+", SP, "m">> }     \* f{z="9"} + m

Suffixes ==
  { <<>>,
    <<"[", "5", "m", "]">>,                                        \* [5m]
    <<SP, SP, RB>> }                                               \* two spaces, }

\* closed: a block with both braces; open: a block that is never closed
\* by its own brace; bare: the fragments without braces
Shapes == {"closed", "open", "bare"}

MatcherLists == UNION { [1..n -> Fragments] : n \in 0..MaxMatchers }

\* the query text of the parts
Build(pre, ms, sep, sh, suf) ==
  pre \o (IF sh = "bare" THEN <<>> ELSE <<LB>>)
      \o join(sep, ms)
      \o (IF sh = "closed" THEN <<RB>> ELSE <<>>)
      \o suf

Init ==
  /\ prefix \in Prefixes
  /\ matchers \in MatcherLists
  /\ separator \in Separators
  /\ shape \in Shapes
  /\ suffix \in Suffixes
  /\ expr = Build(prefix, matchers, separator, shape, suffix)
  /\ pc = ScanInit.pc
  /\ i = ScanInit.i
  /\ out = ScanInit.out
  /\ in_single = ScanInit.in_single
  /\ in_double = ScanInit.in_double
  /\ j = ScanInit.j
  /\ depth = ScanInit.depth
  /\ sub_in_single = ScanInit.sub_in_single
  /\ sub_in_double = ScanInit.sub_in_double
  /\ content = ScanInit.content
  /\ result = ScanInit.result
  /\ raw = None
  /\ threshold = Pending
  /\ fields = NoFields
  /\ converted = Unconverted

\* the locals of the running call as one record
Locals ==
  [pc |-> pc, i |-> i, out |-> out,
   in_single |-> in_single, in_double |-> in_double,
   j |-> j, depth |-> depth,
   sub_in_single |-> sub_in_single, sub_in_double |-> sub_in_double,
   content |-> content, result |-> result]

\* the locals become those of the record st
Becomes(st) ==
  /\ pc' = st.pc
  /\ i' = st.i
  /\ out' = st.out
  /\ in_single' = st.in_single
  /\ in_double' = st.in_double
  /\ j' = st.j
  /\ depth' = st.depth
  /\ sub_in_single' = st.sub_in_single
  /\ sub_in_double' = st.sub_in_double
  /\ content' = st.content
  /\ result' = st.result
  /\ UNCHANGED <<prefix, matchers, separator, shape, suffix, expr>>
  /\ UNCHANGED <<raw, threshold, fields, converted>>

\* the call clean_query(expr), from its first line to its return
Clean ==
  /\ pc = "top"
  /\ Becomes(ScanRun(expr, Locals))

Next == Clean

Spec == Init /\ [][Next]_vars

\* ------------------------------------------- clean_query, step by step

\* The same call, one loop iteration at a time, on every short text over the
\* characters the scanner and the splitter tell apart.

\* the longest text
MaxLen == 4

Alphabet == {LB, RB, DQ, SQ, BS, CM, SP, "a"}

Texts == UNION { [1..n -> Alphabet] : n \in 0..MaxLen }

\* the call clean_query(text) before its loop: the text is all there is, no
\* block is put together around it
StepInit ==
  /\ prefix \in Texts
  /\ matchers = <<>>
  /\ separator = <<CM>>
  /\ shape = "bare"
  /\ suffix = <<>>
  /\ expr = Build(prefix, matchers, separator, shape, suffix)
  /\ pc = ScanInit.pc
  /\ i = ScanInit.i
  /\ out = ScanInit.out
  /\ in_single = ScanInit.in_single
  /\ in_double = ScanInit.in_double
  /\ j = ScanInit.j
  /\ depth = ScanInit.depth
  /\ sub_in_single = ScanInit.sub_in_single
  /\ sub_in_double = ScanInit.sub_in_double
  /\ content = ScanInit.content
  /\ result = ScanInit.result
  /\ raw = None
  /\ threshold = Pending
  /\ fields = NoFields
  /\ converted = Unconverted

\* one iteration of the outer loop (line 132 true, lines 133-187 up to the
\* start of a capture)
Top ==
  /\ pc = "top"
  /\ i <= Len(expr)
  /\ Becomes(TopStep(expr, Locals))

\* one iteration of the capture loop (line 150 true, lines 151-176)
Capture ==
  /\ pc = "capture"
  /\ j <= Len(expr) /\ depth > 0
  /\ Becomes(CaptureStep(expr, Locals))

\* the capture loop is left (line 150 false or the break of line 171), lines
\* 177-185
EndCapture ==
  /\ pc = "capture"
  /\ ~(j <= Len(expr) /\ depth > 0)
  /\ Becomes(CaptureEnd(Locals))

\* the outer loop is left (line 132 false), lines 188-190
Return ==
  /\ pc = "top"
  /\ i > Len(expr)
  /\ Becomes(Finish(Locals))

StepNext == Top \/ Capture \/ EndCapture \/ Return

Steps == StepInit /\ [][StepNext]_vars

\* ---------------------------------------------- the threshold of a check

\* the longest raw threshold
MaxRaw == 4

\* the raw thresholds: None (the variable is not in the file) and the texts
\* over two digits, the range colon, the tilde and the space
RawTexts == UNION { [1..n -> {"0", "9", ":", "~", SP}] : n \in 0..MaxRaw }

\* before a call parse_threshold(raw); no query is being cleaned
ThresholdInit ==
  /\ raw \in RawTexts \cup {None}
  /\ threshold = Pending
  /\ fields = NoFields
  /\ converted = Unconverted
  /\ prefix = <<>>
  /\ matchers = <<>>
  /\ separator = <<CM>>
  /\ shape = "bare"
  /\ suffix = <<>>
  /\ expr = Build(prefix, matchers, separator, shape, suffix)
  /\ pc = ScanInit.pc
  /\ i = ScanInit.i
  /\ out = ScanInit.out
  /\ in_single = ScanInit.in_single
  /\ in_double = ScanInit.in_double
  /\ j = ScanInit.j
  /\ depth = ScanInit.depth
  /\ sub_in_single = ScanInit.sub_in_single
  /\ sub_in_double = ScanInit.sub_in_double
  /\ content = ScanInit.content
  /\ result = ScanInit.result

\* the call parse_threshold(raw)
ParseThreshold ==
  /\ threshold = Pending
  /\ threshold' = parse_threshold(raw)
  /\ UNCHANGED <<prefix, matchers, separator, shape, suffix, expr, pc, i, out,
                 in_single, in_double, j, depth, sub_in_single,
                 sub_in_double, content, result, raw, fields, converted>>

ThresholdNext == ParseThreshold

Thresholds == ThresholdInit /\ [][ThresholdNext]_vars

\* -------------------------------------------- the conversion of a check

\* what extract can give: None when the pattern is not in the file, else
\* the quoted text (the service name of line 32 is never empty)
ServiceNames == {None, <<"S", "v", "c">>}
MetricNames == {None, <<>>, <<"C", "P", "U", "_", "L", "o", "a", "d">>}
MetricQueries ==
  {None, <<>>,
   <<"u", "p">>,                                             \* up
   <<"m", LB, "h", "=", SQ, "%", "H", "%", SQ, RB>>}            \* m{h='%H%'}
RawThresholds ==
  {None, <<>>,
   <<"5">>,
   <<"0", ":", "9">>,
   <<SP>>}

\* before a call convert_conf_to_yaml; no query is being cleaned outside it
ConvertInit ==
  /\ fields \in [service_name : ServiceNames, metric_name : MetricNames,
                  metric_query : MetricQueries,
                  warn_raw : RawThresholds, crit_raw : RawThresholds]
  /\ converted = Unconverted
  /\ raw = None
  /\ threshold = Pending
  /\ prefix = <<>>
  /\ matchers = <<>>
  /\ separator = <<CM>>
  /\ shape = "bare"
  /\ suffix = <<>>
  /\ expr = Build(prefix, matchers, separator, shape, suffix)
  /\ pc = ScanInit.pc
  /\ i = ScanInit.i
  /\ out = ScanInit.out
  /\ in_single = ScanInit.in_single
  /\ in_double = ScanInit.in_double
  /\ j = ScanInit.j
  /\ depth = ScanInit.depth
  /\ sub_in_single = ScanInit.sub_in_single
  /\ sub_in_double = ScanInit.sub_in_double
  /\ content = ScanInit.content
  /\ result = ScanInit.result

\* the call convert_conf_to_yaml, from the extracted values to its return
\* or its ValueError
Convert ==
  /\ converted = Unconverted
  /\ converted' = convert_conf_to_yaml(fields)
  /\ UNCHANGED <<prefix, matchers, separator, shape, suffix, expr, pc, i, out,
                 in_single, in_double, j, depth, sub_in_single,
                 sub_in_double, content, result, raw, threshold, fields>>

ConvertNext == Convert

Conversions == ConvertInit /\ [][ConvertNext]_vars

\* ------------------------------------------------- notions of the claims

\* pat occurs somewhere in s
Occurs(pat, s) == \E k \in 1..Len(s) : MatchesAt(s, pat, k)

\* s without its whitespace
RECURSIVE Squeeze(_)
Squeeze(s) ==
  IF s = <<>> THEN <<>>
  ELSE IF Head(s) \in Whitespace THEN Squeeze(Tail(s))
  ELSE <<Head(s)>> \o Squeeze(Tail(s))

\* the interior of the block as the caller wrote it
Interior == join(separator, matchers)

\* the character at position k of s lies in a quoted region or follows a
\* backslash, quotes and escapes read as the splitter reads them
QuotedAt(s, k) ==
  LET sp == SplitAfter(s, k - 1)
  IN sp.in_single \/ sp.in_double \/ sp.esc

\* every quote of s is closed and no backslash is left pending
BalancedQuoting(s) ==
  LET sp == SplitAfter(s, Len(s))
  IN ~sp.in_single /\ ~sp.in_double /\ ~sp.esc

\* the fragment parses as key OP value and its unquoted value holds a
\* placeholder token
PlaceholderBearing(m) ==
  LET mobj == label_matcher(strip(m))
  IN mobj.ok /\ has_placeholder(unquoted(strip(mobj.val)))

\* the query holds one closed block after the prefix, whose interior has no
\* brace outside a quoted region
NonNestedBlock ==
  /\ shape = "closed"
  /\ BalancedQuoting(Interior)
  /\ \A k \in 1..Len(Interior) :
       Interior[k] \in {LB, RB} => QuotedAt(Interior, k)

\* the text after the block holds no brace
PlainSuffix == \A k \in 1..Len(suffix) : suffix[k] \notin {LB, RB}

\* the fragment, when it parses, is written without whitespace around its
\* operator
TightOperator(m) ==
  LET mobj == label_matcher(strip(m))
  IN mobj.ok => strip(m) = mobj.key \o mobj.op \o mobj.val

\* the stripped, non-empty fragments of ms that are to be retained
RECURSIVE Retained(_)
Retained(ms) ==
  IF ms = <<>> THEN <<>>
  ELSE IF strip(Head(ms)) = <<>> \/ PlaceholderBearing(Head(ms))
       THEN Retained(Tail(ms))
       ELSE <<strip(Head(ms))>> \o Retained(Tail(ms))

\* the elements of a list
Range(seq) == {seq[k] : k \in 1..Len(seq)}

\* the stripped fragments of ms that are not empty
Stripped(ms) == non_empty([k \in 1..Len(ms) |-> strip(ms[k])])

\* position b of the fragment m lies between an opening quote and its
\* closing quote, a quote after a backslash not counting (for a fragment
\* with one kind of quote and no doubled backslash)
InsideQuotes(m, b) ==
  /\ \A q \in 1..(Len(m) - 1) : ~(m[q] = BS /\ m[q + 1] = BS)
  /\ \E Q \in {DQ, SQ} :
       /\ \A q \in 1..Len(m) : m[q] \in {DQ, SQ} => m[q] = Q
       /\ Cardinality({q \in 1..(b - 1) :
                         m[q] = Q /\ (q = 1 \/ m[q - 1] # BS)}) % 2 = 1

\* the fragment holds a comma inside its quoted value
HasQuotedComma(m) == \E b \in 1..Len(m) : m[b] = CM /\ InsideQuotes(m, b)

\* the fragment holds, inside its quoted value, an escaped quote and then a
\* comma
HasCommaAfterEscapedQuote(m) ==
  \E a \in 1..Len(m) : \E b \in (a + 2)..Len(m) :
    /\ m[a] = BS /\ m[a + 1] \in {DQ, SQ}
    /\ InsideQuotes(m, a)
    /\ m[b] = CM /\ InsideQuotes(m, b)

\* the fragment holds an escaped quote inside its quoted value
HasEscapedQuote(m) ==
  \E a \in 1..(Len(m) - 1) :
    m[a] = BS /\ m[a + 1] \in {DQ, SQ} /\ InsideQuotes(m, a)

\* a matcher written as the rebuilt block writes it: key OP value without
\* whitespace, without brace, without placeholder
Canonical(m) ==
  /\ m # <<>>
  /\ label_matcher(m).ok
  /\ \A k \in 1..Len(m) : m[k] \notin Whitespace \cup {LB, RB}
  /\ ~PlaceholderBearing(m)

\* -------------------------------------------------------------- claims

\* C1: in a non-nested block, a matcher that parses as key OP value and
\* whose unquoted value holds a placeholder of any of the four forms is
\* absent from the output of clean_query.
C1_PlaceholderMatcherAbsent ==
  (pc = "done" /\ NonNestedBlock) =>
    \A k \in 1..Len(matchers) :
      PlaceholderBearing(matchers[k]) => ~Occurs(strip(matchers[k]), result)

\* C2: when every matcher of a non-nested block is placeholder-bearing the
\* block is removed with its braces and the text around it stays in place
\* (stated for a text after the block that holds no brace).
C2_AllPlaceholderBlockRemoved ==
  (/\ pc = "done"
   /\ NonNestedBlock
   /\ PlainSuffix
   /\ matchers # <<>>
   /\ \A k \in 1..Len(matchers) : PlaceholderBearing(matchers[k])) =>
    result = prefix \o suffix

\* C3: a non-nested block with a retained matcher is rewritten as "{", the
\* retained matchers of the input in their order joined by ", ", and "}"
\* (stated for matchers written without whitespace around the operator).
C3_RetainedMatchersRewritten ==
  (/\ pc = "done"
   /\ NonNestedBlock
   /\ PlainSuffix
   /\ \A k \in 1..Len(matchers) : TightOperator(matchers[k])
   /\ Retained(matchers) # <<>>) =>
    result = prefix \o <<LB>> \o join(<<CM, SP>>, Retained(matchers))
                    \o <<RB>> \o suffix

\* C4: a block none of whose matchers is placeholder-bearing is returned
\* with every matcher verbatim and in order, the separator made ", "
\* (stated for matchers written without whitespace around the operator).
C4_CleanBlockVerbatim ==
  (/\ pc = "done"
   /\ NonNestedBlock
   /\ PlainSuffix
   /\ \A k \in 1..Len(matchers) : TightOperator(matchers[k])
   /\ \E k \in 1..Len(matchers) : strip(matchers[k]) # <<>>
   /\ \A k \in 1..Len(matchers) : ~PlaceholderBearing(matchers[k])) =>
    result = prefix \o <<LB>> \o join(<<CM, SP>>, Stripped(matchers))
                    \o <<RB>> \o suffix

\* C5: a matcher is dropped only if it parses as key OP value and its
\* unquoted value holds a placeholder token: every other fragment of the
\* input is still in the output, whitespace apart.
C5_OnlyPlaceholderDropped ==
  pc = "done" =>
    \A k \in 1..Len(matchers) :
      (strip(matchers[k]) # <<>> /\ ~PlaceholderBearing(matchers[k])) =>
        Occurs(Squeeze(matchers[k]), Squeeze(result))

\* C5 happens: a block loses its placeholder-bearing matcher and keeps the
\* other one.
C5_Witness ==
  /\ pc = "done"
  /\ shape = "closed"
  /\ Len(matchers) = 2
  /\ PlaceholderBearing(matchers[1])
  /\ ~Occurs(matchers[1], result)
  /\ ~PlaceholderBearing(matchers[2])
  /\ result = prefix \o <<LB>> \o matchers[2] \o <<RB>> \o suffix

\* C6: an expression without "{" is returned unchanged (stated for the
\* expressions that hold no "}" outside a quoted value either).
C6_NoBraceIdentity ==
  (pc = "done" /\ PlainSuffix /\ \A k \in 1..Len(expr) : expr[k] # LB) =>
    result = expr

\* C7: cleaning the output of clean_query again changes nothing, for every
\* input with balanced quoting (stated for a text after the block that
\* holds no brace).
C7_Idempotent ==
  (pc = "done" /\ PlainSuffix /\ BalancedQuoting(expr)) =>
    clean_query(result) = result

C9_EscapedQuoteKeepsBlock ==
  (/\ pc = "done"
   /\ shape = "closed"
   /\ PlainSuffix
   /\ separator = <<CM, SP>>
   /\ matchers # <<>>
   /\ \A k \in 1..Len(matchers) : Canonical(matchers[k])
   /\ \E k \in 1..Len(matchers) : HasEscapedQuote(matchers[k])) =>
    result = expr

\* C10: in the splitter the character after a backslash goes to the current
\* fragment and leaves the quote state as it was, so a comma after an
\* escaped quote and before the closing quote does not split the matcher.
C10_EscapedCharKeepsQuoteState ==
  (pc = "done" /\ shape # "bare") =>
    /\ \A p \in 1..Len(Interior) :
         LET a == SplitAfter(Interior, p - 1)
             b == SplitAfter(Interior, p)
         IN a.esc => /\ b.in_single = a.in_single
                     /\ b.in_double = a.in_double
                     /\ b.buf = Append(a.buf, Interior[p])
                     /\ b.parts = a.parts
    /\ \A k \in 1..Len(matchers) :
         HasCommaAfterEscapedQuote(matchers[k]) =>
           matchers[k] \in Range(split_label_matchers(Interior))

\* C10 happens: an unclosed block with c="\",y" is rebuilt with that one
\* matcher.
C10_Witness ==
  /\ pc = "done"
  /\ shape = "open"
  /\ Len(matchers) = 1
  /\ HasCommaAfterEscapedQuote(matchers[1])
  /\ result = prefix \o <<LB>> \o matchers[1] \o <<RB>> \o suffix

\* C11: the top-level scan begins a block capture at a "{" only when that
\* "{" is not preceded by a backslash and lies outside every quoted region
\* (quotes and escapes read with the escape rule of the splitter); a text
\* whose every "{" is escaped or quoted is returned as it was.
C11_CaptureOnlyAtLiteralBrace ==
  /\ pc = "capture" => ~QuotedAt(expr, i)
  /\ (/\ pc = "done"
      /\ normalize_braces(expr) = expr
      /\ \A k \in 1..Len(expr) : expr[k] = LB => QuotedAt(expr, k)) =>
       result = expr

\* the number of blocks open after the first k characters of s, the braces
\* in quoted regions and after a backslash not counted
RECURSIVE OpenBraces(_, _)
OpenBraces(s, k) ==
  IF k = 0 THEN 0
  ELSE IF QuotedAt(s, k) THEN OpenBraces(s, k - 1)
  ELSE IF s[k] = LB THEN OpenBraces(s, k - 1) + 1
  ELSE IF s[k] = RB THEN OpenBraces(s, k - 1) - 1
  ELSE OpenBraces(s, k - 1)

\* the interior closes every block it opens and no other, and leaves no
\* quote open: the block ends at the brace written after the interior
ProperInterior ==
  /\ BalancedQuoting(Interior)
  /\ OpenBraces(Interior, Len(Interior)) = 0
  /\ \A k \in 1..Len(Interior) : OpenBraces(Interior, k) >= 0

\* the query holds one closed block after the prefix, whose interior holds
\* a block of its own
NestedBlock ==
  /\ shape = "closed"
  /\ ProperInterior
  /\ \E k \in 1..Len(Interior) : Interior[k] = LB /\ ~QuotedAt(Interior, k)

\* the fragment is not empty and does not parse as key OP value
Unparsed(m) == strip(m) # <<>> /\ ~label_matcher(strip(m)).ok

\* C12: a block whose only braces lie inside quoted values is not nested:
\* it comes back as the rebuild of its interior, its placeholder-bearing
\* matchers dropped (stated for interiors without backslash and without a
\* space next to a brace).
C12_QuotedBraceBlockRebuilt ==
  (/\ pc = "done"
   /\ NonNestedBlock
   /\ PlainSuffix
   /\ \E k \in 1..Len(Interior) : Interior[k] \in {LB, RB}
   /\ \A k \in 1..Len(Interior) : Interior[k] # BS
   /\ normalize_braces(Interior) = Interior) =>
    result = prefix \o reconstruct_labelset(Interior) \o suffix

\* C13: a block whose interior holds an unescaped, unquoted "{" comes back
\* with every character as it was (stated for interiors without whitespace
\* at either end).
C13_NestedBlockVerbatim ==
  (/\ pc = "done"
   /\ NestedBlock
   /\ PlainSuffix
   /\ strip(Interior) = Interior) =>
    result = expr

\* C14: when the text ends while a block is open, the text from the opening
\* "{" to the end is passed through: the output is the input, no matcher is
\* dropped and no brace is added.
C14_UnterminatedBlockPassThrough ==
  (/\ pc = "done"
   /\ shape = "open"
   /\ PlainSuffix
   /\ BalancedQuoting(Interior)
   /\ \A k \in 1..Len(Interior) : OpenBraces(Interior, k) >= 0) =>
    result = expr

\* C15: a fragment that does not parse as key OP value is never dropped:
\* the splitter returns it, and its text, trimmed, is in the output, also
\* when it holds a placeholder token.
C15_UnparsedFragmentKept ==
  (pc = "done" /\ shape # "bare") =>
    \A k \in 1..Len(matchers) :
      Unparsed(matchers[k]) =>
        /\ strip(matchers[k]) \in Range(split_label_matchers(Interior))
        /\ Occurs(strip(matchers[k]), result)

\* C15 happens: of a fragment that does not parse and holds a placeholder
\* and a placeholder-bearing matcher, the rebuilt block keeps the first.
C15_Witness ==
  /\ pc = "done"
  /\ shape = "closed"
  /\ Len(matchers) = 2
  /\ Unparsed(matchers[1])
  /\ has_placeholder(matchers[1])
  /\ PlaceholderBearing(matchers[2])
  /\ result = prefix \o <<LB>> \o strip(matchers[1]) \o <<RB>> \o suffix

\* the position the call reads next
ReadPosition == IF pc = "capture" THEN j ELSE i

\* a step of the scan moves the read position forward by one character; a
\* capture is left at the brace that matches its opening brace or at the end
\* of the text, and the outer position is then put after the captured text;
\* the call returns when the text is read
Advances ==
  IF pc = "capture" /\ pc' = "top"
  THEN /\ depth = 0 \/ j > Len(expr)
       /\ depth = 0 => expr[j - 1] = RB
       /\ i' = j /\ i' > i
  ELSE IF pc' = "done" THEN i = Len(expr) + 1
  ELSE ReadPosition' = ReadPosition + 1

\* C16: on every text, unterminated quotes and unbalanced braces included,
\* clean_query returns a text: every step advances the read position, the
\* read position never passes the end of the text by more than one (so the
\* steps are at most as many as the characters, twice), a capture ends at
\* the matching brace or at the end of the text, and what is returned is a
\* text.
C16_Terminates ==
  /\ [](ReadPosition \in 1..(Len(expr) + 1))
  /\ [](pc = "done" => \A k \in 1..Len(result) : result[k] \in Alphabet)
  /\ [][Advances]_vars

\* C16 happens: the call has returned after a capture that the end of the
\* text ended, inside a quoted region that was never closed.
C16_Witness ==
  /\ pc = "done"
  /\ depth > 0
  /\ sub_in_single \/ sub_in_double

\* C17: the final replacement of "{ " and " }" changes no character of a
\* retained matcher or of a quoted value: a matcher that is to be retained
\* and is written without whitespace around its operator is in the output
\* as it was written.
C17_NormalizationLeavesMatchers ==
  pc = "done" =>
    \A k \in 1..Len(matchers) :
      (/\ strip(matchers[k]) # <<>>
       /\ ~PlaceholderBearing(matchers[k])
       /\ TightOperator(matchers[k])) =>
        Occurs(strip(matchers[k]), result)

\* C18: the output is the output for the text before the block, then the
\* output for the block taken alone, then the text after the block: what is
\* done to a block changes neither the text around it nor another block.
C18_BlocksIndependent ==
  (/\ pc = "done"
   /\ shape = "closed"
   /\ PlainSuffix
   /\ ProperInterior) =>
    result = clean_query(prefix)
               \o clean_query(<<LB>> \o Interior \o <<RB>>)
               \o suffix

\* C19: the splitter returns the fragments of a block interior in the
\* order they were written, each without leading and trailing whitespace,
\* and none of them empty.
C19_SplitterOrderTrimNonEmpty ==
  (pc = "done" /\ shape # "bare") =>
    LET parts == split_label_matchers(Interior)
    IN /\ parts = Stripped(matchers)
       /\ \A k \in 1..Len(parts) :
            parts[k] # <<>> /\ strip(parts[k]) = parts[k]

\* C19 happens: an empty fragment and a fragment written in spaces give
\* the one trimmed fragment.
C19_Witness ==
  /\ pc = "done"
  /\ shape = "closed"
  /\ Len(matchers) = 2
  /\ matchers[1] = <<>>
  /\ strip(matchers[2]) # matchers[2]
  /\ split_label_matchers(Interior) = <<strip(matchers[2])>>

\* the raw threshold holds a ":"
IsRange == raw # None /\ \E c \in 1..Len(raw) : raw[c] = ":"

\* of a range L:R, the text L before the first ":" and the text R after it
LeftSide == SubSeq(raw, 1, first_colon(raw) - 1)
RightSide == Tail_from(raw, first_colon(raw) + 1)

\* C20: parse_threshold returns the right side of a range L:R, trimmed, and
\* the left side, trimmed, only when the right side is empty or "~"; a raw
\* value without ":" is returned trimmed; a missing or empty raw value gives
\* no threshold.
C20_UpperBoundOfRange ==
  threshold # Pending =>
    IF raw = None \/ raw = <<>> THEN threshold = None
    ELSE IF ~IsRange THEN threshold = strip(raw)
    ELSE IF strip(RightSide) \in {<<>>, <<"~">>}
         THEN threshold = strip(LeftSide)
         ELSE threshold = strip(RightSide)

\* C20 happens: a range with two different bounds gave its upper bound.
C20_Witness ==
  /\ threshold # Pending
  /\ IsRange
  /\ strip(LeftSide) \notin {<<>>, <<"~">>, strip(RightSide)}
  /\ strip(RightSide) \notin {<<>>, <<"~">>}
  /\ threshold = strip(RightSide)

\* the check definition gives no text for the value
Missing(x) == x = None \/ x = <<>>

\* C21: convert_conf_to_yaml raises exactly when the check definition gives
\* no warning threshold, no critical threshold and no query; otherwise it
\* returns at least one rule, and the left-hand side of every rule's
\* expression is the cleaned query when there is a query and the metric
\* name when there is none.
C21_RaisesOnlyWithoutThresholdAndQuery ==
  converted # Unconverted =>
    LET left == IF Missing(fields.metric_query)
                THEN converted.metric_name
                ELSE clean_query(fields.metric_query)
    IN /\ converted.outcome = "raised" <=> /\ Missing(fields.warn_raw)
                               /\ Missing(fields.crit_raw)
                               /\ Missing(fields.metric_query)
       /\ converted.outcome = "returned" =>
            /\ Len(converted.rules) >= 1
            /\ \A k \in 1..Len(converted.rules) :
                 LET rule == converted.rules[k]
                 IN \/ rule.severity = "info" /\ rule.expr = left
                    \/ /\ rule.severity \in {"warning", "critical"}
                       /\ MatchesAt(rule.expr, left \o <<SP, ">", SP>>, 1)

\* C21 happens: without thresholds, a query with a placeholder matcher gave
\* one rule, whose expression is the cleaned query.
C21_Witness ==
  /\ converted # Unconverted
  /\ converted.outcome = "returned"
  /\ Missing(fields.warn_raw)
  /\ Missing(fields.crit_raw)
  /\ Len(converted.rules) = 1
  /\ converted.rules[1].expr = clean_query(fields.metric_query)
  /\ converted.rules[1].expr # fields.metric_query

\* the number of blocks open after the first k characters of s: quoted and
\* escaped braces are not counted, and a "}" that closes no block is text
RECURSIVE BlockDepth(_, _)
BlockDepth(s, k) ==
  IF k = 0 THEN 0
  ELSE LET d == BlockDepth(s, k - 1)
       IN IF QuotedAt(s, k) THEN d
          ELSE IF s[k] = LB THEN d + 1
          ELSE IF s[k] = RB /\ d > 0 THEN d - 1
          ELSE d

\* positions k..e of s are a label block of the top level that holds no
\* matcher fragment: nothing, or only whitespace and commas
EmptyBlockAt(s, k, e) ==
  /\ k < e
  /\ s[k] = LB /\ ~QuotedAt(s, k) /\ BlockDepth(s, k - 1) = 0
  /\ s[e] = RB
  /\ \A x \in (k + 1)..(e - 1) : s[x] \in {SP, CM}

\* s without its positions k..e
Without(s, k, e) == SubSeq(s, 1, k - 1) \o SubSeq(s, e + 1, Len(s))

\* the captured text holds no brace: the block is rebuilt (line 178)
Rebuilt(inner) == \A k \in 1..Len(inner) : inner[k] \notin {LB, RB}

\* C22: a label block of the top level that holds no matcher fragment ("{}",
\* only whitespace, only commas) is removed together with its braces: the
\* result is the result for the text without the block; and the rebuild of
\* a block without inner braces never gives "{}".
C22_EmptyBlockRemoved ==
  /\ pc = "done" =>
       \A k \in 1..Len(expr) : \A e \in 1..Len(expr) :
         EmptyBlockAt(expr, k, e) => result = clean_query(Without(expr, k, e))
  /\ (pc = "capture" /\ Rebuilt(content)) =>
       rebuild_block(content) # <<LB, RB>>

\* the quote state is one of Normal, InSingleQuote, InDoubleQuote
OneQuoteState(single, double) == ~(single /\ double)

\* a block capture begins or ends in this step
CaptureBegins == pc = "top" /\ pc' = "capture"
CaptureEnds == pc = "capture" /\ pc' = "top"

\* C23: the single-quote flag and the double-quote flag are never both set,
\* in the top-level scan, in the block capture and in the splitter run over
\* the captured text; the top-level state is Normal when a capture begins,
\* all through it and when the scan resumes after it, and a capture begins
\* in its own Normal state.
C23_QuoteFlagsExclusive ==
  /\ [](/\ OneQuoteState(in_single, in_double)
        /\ OneQuoteState(sub_in_single, sub_in_double)
        /\ \A k \in 0..Len(content) :
             OneQuoteState(SplitAfter(content, k).in_single,
                           SplitAfter(content, k).in_double)
        /\ pc = "capture" => ~in_single /\ ~in_double)
  /\ [][/\ CaptureBegins => /\ ~in_single /\ ~in_double
                            /\ ~in_single' /\ ~in_double'
                            /\ ~sub_in_single' /\ ~sub_in_double'
        /\ CaptureEnds => ~in_single' /\ ~in_double']_vars

\* C23 happens: a capture read a single quote inside a double-quoted value,
\* which left the single-quote flags of the capture and of the splitter
\* unset, and the scan resumed after it in the Normal state.
C23_Witness ==
  /\ pc = "top" /\ i > 1
  /\ content = <<DQ, SQ>>
  /\ sub_in_double /\ ~sub_in_single
  /\ SplitAfter(content, 2).in_double /\ ~SplitAfter(content, 2).in_single
  /\ ~in_single /\ ~in_double

====
